---- MODULE Spec2Model ----
(***************************************************************************)
(* A model of reversion/revisions.py: the per-thread revision state, the   *)
(* registry, the relationship closure (follow_relationships), the          *)
(* duplicate check and the persist pipeline of RevisionManager.end, and    *)
(* the high-level helpers (__enter__/__exit__, create_on_success).         *)
(*                                                                         *)
(* The host (Django) is modelled at the boundary the code touches: model   *)
(* instances with a class, a primary key that deletion sets to None, two   *)
(* field values and the values their relationship attributes resolve to;   *)
(* the serializer; and the Revision/Version tables.                        *)
(***************************************************************************)
EXTENDS Integers, Sequences, FiniteSets, Bags, TLC

\* ------------------------------------------------------------------ bounds
MaxDepth == 2
MaxRevisions == 1
MaxMeta == 1
MaxFrames == 1
RecursionLimit == 4

\* --------------------------------------------------------------- universe
None == "None"
NoPk == <<>>    \* a pk of None; a pk of n is <<n>>

VERSION_ADD == "VERSION_ADD"
VERSION_CHANGE == "VERSION_CHANGE"
VERSION_DELETE == "VERSION_DELETE"
TypeFlags == {VERSION_ADD, VERSION_CHANGE, VERSION_DELETE}

DEFAULT_SERIALIZATION_FORMAT == "json"
SupportedFormats == {"json", "xml"}

Threads == {"t1", "t2"}
Classes == {"Article", "Author", "ArticleProxy"}
FieldNames == {"title", "body"}
RelNames == {"r1", "r2"}
Objs == {"a1", "u1", "p1"}
Users == {None, "alice"}
Comments == {"", "edited"}
MetaClasses == {"Meta"}

\* obj.__class__
ClassOf(obj) == CASE obj = "a1" -> "Article"
                  [] obj = "u1" -> "Author"
                  [] obj = "p1" -> "ArticleProxy"

\* obj._meta.proxy
IsProxy(cls) == cls = "ArticleProxy"

\* obj._meta.parents.keys()[0] of a proxy class
ParentClass(cls) == "Article"

\* The primary key every instance is loaded with; p1 is the proxy view of a1's row.
LoadedPk(obj) == <<1>>

\* The error names of the code.
NoError == "none"
RevisionManagementError == "RevisionManagementError"
RegistrationError == "RegistrationError: has not been registered"
AlreadyRegisteredError == "RegistrationError: has already been registered"
ParentNotRegisteredError == "RegistrationError: proxy parent has not been registered"
TypeError == "TypeError"
ObjectDoesNotExist == "ObjectDoesNotExist"
SerializerDoesNotExist == "SerializerDoesNotExist"
RuntimeError == "RuntimeError"
DatabaseError == "DatabaseError"
WorkError == "WorkError"

VARIABLES
    registry,    \* RevisionManager._registry: a dict from class to RegistrationInfo
    connected,   \* the classes whose post_save/pre_delete signals reach the receivers
    state,       \* RevisionManager._state, one RevisionState per thread (threading.local)
    frames,      \* per thread: the open with-blocks / create_on_success calls, innermost last
    balance,     \* per thread: calls of start minus calls of end that returned past assert_active
    pk,          \* obj.pk of every instance, None once deleted
    fieldval,    \* the field values of every instance
    related,     \* what getattr(obj, relationship) resolves to
    revisions,   \* the Revision table with each revision's Version and meta rows
    last         \* the exception the last call raised, if any: [op, t, err]

vars == <<registry, connected, state, frames, balance, pk, fieldval, related, revisions, last>>

\* ---------------------------------------------------------------- helpers
EmptyMap == [o \in {} |-> None]

\* dict[key] = value
Put(map, key, value) ==
    [k \in DOMAIN map \cup {key} |-> IF k = key THEN value ELSE map[k]]

\* dict.update(other)
Update(map, other) ==
    [k \in DOMAIN map \cup DOMAIN other |-> IF k \in DOMAIN other THEN other[k] ELSE map[k]]

\* All orders in which a set can be iterated.
Orders(S) == {s \in [1..Cardinality(S) -> S] : \A i, j \in 1..Cardinality(S) : s[i] = s[j] => i = j}

\* RegistrationInfo.__init__
RegistrationInfo(fields, follow, format) ==
    [fields |-> fields, follow |-> follow, format |-> format]

\* RevisionState.clear: the default state
ClearedState ==
    [objects |-> EmptyMap,
     user |-> None,
     comment |-> "",
     depth |-> 0,
     is_invalid |-> FALSE,
     meta |-> <<>>,
     ignore_duplicates |-> FALSE]

\* RevisionManager.is_registered
is_registered(model_class) == model_class \in DOMAIN registry

\* is_active with the comparison slipped to >=
is_active_AtZero(t) == state[t].depth >= 0

\* RevisionManager.is_active
is_active(t) == state[t].depth > 0

\* RevisionManager.is_invalid
is_invalid(t) == state[t].is_invalid

\* ContentType.objects.get_for_model(obj): a proxy shares its parent's content type
ContentTypeOf(cls) == IF IsProxy(cls) THEN ParentClass(cls) ELSE cls

\* unicode(obj.pk)
Unicode(p) == IF p = NoPk THEN "None" ELSE ToString(p[1])

\* serializers.serialize(format, [obj], fields=field_names): the format, the
\* model label, the primary key and the values of the named fields.
Serialize(format, obj, field_names) ==
    [format |-> format,
     model |-> ClassOf(obj),
     pk |-> pk[obj],
     fields |-> [f \in field_names |-> fieldval[obj][f]]]

\* RevisionManager.get_version_data: [err, data]
get_version_data(obj, type_flag) ==
    LET cls == ClassOf(obj) IN
    IF ~is_registered(cls)
    THEN [err |-> RegistrationError, data |-> None]
    ELSE LET registration_info == registry[cls] IN
         IF registration_info.format \notin SupportedFormats
         THEN [err |-> SerializerDoesNotExist, data |-> None]
         ELSE IF pk[obj] = NoPk
         THEN [err |-> TypeError, data |-> None]    \* int(obj.pk) of a None pk
         ELSE [err |-> NoError,
               data |-> [object_id |-> Unicode(pk[obj]),
                         object_id_int |-> pk[obj][1],
                         content_type |-> ContentTypeOf(cls),
                         format |-> registration_info.format,
                         serialized_data |-> Serialize(registration_info.format, obj,
                                                       registration_info.fields),
                         object_repr |-> obj,
                         type |-> type_flag]]

\* ---------------------------------------------------------------- closure
\* What getattr(obj, relationship, None) can give.
RelNone == [kind |-> "none", objs |-> <<>>]             \* None, or no such attribute
RelDoesNotExist == [kind |-> "dne", objs |-> <<>>]      \* raises ObjectDoesNotExist
RelModel(o) == [kind |-> "model", objs |-> <<o>>]       \* a models.Model instance
RelManager(os) == [kind |-> "manager", objs |-> os]     \* a Manager or QuerySet; os is .all()
RelOther == [kind |-> "other", objs |-> <<>>]           \* anything else

\* parent_cls.objects.get(pk=obj.pk): the instances of the parent class with that key
ParentObjs(obj) ==
    {o \in Objs : ClassOf(o) = ParentClass(ClassOf(obj)) /\ pk[o] = pk[obj]}

\* The traversal state: result_dict, the objects snapshotted so far in order, and
\* the exception that ended the traversal, if any.
NewTraversal == [result |-> EmptyMap, log |-> <<>>, err |-> NoError]

RECURSIVE _follow_relationships(_, _, _)
RECURSIVE FollowRelations(_, _, _, _, _)
RECURSIVE FollowEach(_, _, _, _)
RECURSIVE Snapshot(_, _, _, _)
RECURSIVE FollowParent(_, _, _)
RECURSIVE FollowRelated(_, _, _)

\* the guard without the memo of the objects already in result_dict
AlreadySeen_NoMemo(obj, acc) == pk[obj] = NoPk

\* line 214: the guard of _follow_relationships
AlreadySeen(obj, acc) == obj \in DOMAIN acc.result \/ pk[obj] = NoPk

\* lines 241-246: the parent of a proxy; acc is the traversal after the loop
FollowParent(obj, acc, depth) ==
    IF acc.err # NoError THEN acc
    ELSE IF IsProxy(ClassOf(obj)) /\ is_registered(ParentClass(ClassOf(obj)))
    THEN IF ParentObjs(obj) = {}
         THEN [acc EXCEPT !.err = ObjectDoesNotExist]
         ELSE _follow_relationships(CHOOSE o \in ParentObjs(obj) : TRUE, acc, depth - 1)
    ELSE acc

\* lines 216-246: vd is get_version_data(obj, VERSION_CHANGE)
Snapshot(obj, acc, vd, depth) ==
    IF vd.err # NoError THEN [acc EXCEPT !.err = vd.err]
    ELSE FollowParent(obj,
                      FollowRelations(obj, registry[ClassOf(obj)].follow, 1,
                                      [acc EXCEPT !.result = Put(acc.result, obj, vd.data),
                                                  !.log = Append(acc.log, obj)],
                                      depth),
                      depth)

\* _follow_relationships(obj) called with `depth` stack frames left
_follow_relationships(obj, acc, depth) ==
    IF acc.err # NoError THEN acc
    ELSE IF depth = 0 THEN [acc EXCEPT !.err = RuntimeError]
    ELSE IF AlreadySeen(obj, acc) THEN acc
    ELSE Snapshot(obj, acc, get_version_data(obj, VERSION_CHANGE), depth)

\* a relationship that resolves to no model and no manager passed over in silence
FollowRelated_SkipOther(rel, acc, depth) ==
    CASE rel.kind = "model" -> _follow_relationships(rel.objs[1], acc, depth - 1)
      [] rel.kind = "manager" -> FollowEach(rel.objs, 1, acc, depth - 1)
      [] OTHER -> acc

\* lines 230-240: one relationship, resolved to rel
FollowRelated(rel, acc, depth) ==
    CASE rel.kind \in {"none", "dne"} -> acc
      [] rel.kind = "model" -> _follow_relationships(rel.objs[1], acc, depth - 1)
      [] rel.kind = "manager" -> FollowEach(rel.objs, 1, acc, depth - 1)
      [] OTHER -> [acc EXCEPT !.err = TypeError]

\* the loop over registration_info.follow, from index i on
FollowRelations(obj, follow, i, acc, depth) ==
    IF acc.err # NoError \/ i > Len(follow) THEN acc
    ELSE FollowRelations(obj, follow, i + 1,
                         FollowRelated(related[obj][follow[i]], acc, depth), depth)

\* _follow_relationships applied to every object of a sequence, in order
FollowEach(objs, i, acc, depth) ==
    IF acc.err # NoError \/ i > Len(objs) THEN acc
    ELSE FollowEach(objs, i + 1, _follow_relationships(objs[i], acc, depth), depth)

\* the update the other way round: the traversal's snapshots over the captured ones
Overlay_Reversed(acc, object_dict) == [acc EXCEPT !.result = Update(object_dict, acc.result)]

\* line 249: result_dict.update(object_dict)
Overlay(acc, object_dict) == [acc EXCEPT !.result = Update(acc.result, object_dict)]

\* RevisionManager.follow_relationships; `order` is the order in which
\* map() iterates the keys of object_dict.
follow_relationships(object_dict, order) ==
    Overlay(FollowEach(order, 1, NewTraversal, RecursionLimit), object_dict)

\* ------------------------------------------------------------------ store
RECURSIVE SumCounts(_, _)
SumCounts(S, bag) ==
    IF S = {} THEN 0
    ELSE LET x == CHOOSE y \in S : TRUE IN bag[x] + SumCounts(S \ {x}, bag)

\* The bag of the values map[k], k in keys.
BagOf(map, keys) ==
    [v \in {map[k] : k \in keys} |-> Cardinality({k \in keys : map[k] = v})]

\* the versions compared whole, type flag and all
SerializedData_WholeVersions(versions) == versions

\* values_list("serialized_data", flat=True) over a bag of versions
SerializedData(versions) ==
    [d \in {v.serialized_data : v \in DOMAIN versions} |->
        SumCounts({v \in DOMAIN versions : v.serialized_data = d}, versions)]

\* The revisions with a version of the object_id and content_type of one of
\* new_versions (the filter of line 303).
Matching(new_versions) ==
    {i \in 1..Len(revisions) :
        \E v \in DOMAIN revisions[i].versions, n \in DOMAIN new_versions :
            v.object_id = n.object_id /\ v.content_type = n.content_type}

\* The greatest element of a non-empty set of numbers.
Max(S) == CHOOSE i \in S : \A j \in S : j <= i

\* the comparison stopping at the number of versions
SameAsRevision_CountOnly(latest_revision, new_versions) ==
    BagCardinality(revisions[latest_revision].versions) = BagCardinality(new_versions)

\* lines 306-310: the comparison with the versions of latest_revision
SameAsRevision(latest_revision, new_versions) ==
    IF BagCardinality(revisions[latest_revision].versions) = BagCardinality(new_versions)
    THEN SerializedData(revisions[latest_revision].versions) = SerializedData(new_versions)
    ELSE FALSE

\* lines 298-310: whether the revision is saved, given ignore_duplicates is set
\* and new_versions is not empty
SaveRevision(new_versions) ==
    IF Matching(new_versions) = {} THEN TRUE
    ELSE ~SameAsRevision(Max(Matching(new_versions)), new_versions)

\* Where the store fails during lines 314-324: nowhere, at Revision.objects.create,
\* at a version.save() after the versions of `saved` were saved, or at a meta
\* create after `metas` of them were created.
NoFault == [at |-> "none", saved |-> {}, metas |-> 0]
Faults(objs, meta) ==
    {NoFault, [at |-> "revision", saved |-> {}, metas |-> 0]}
    \cup {[at |-> "version", saved |-> S, metas |-> 0] : S \in (SUBSET objs) \ {objs}}
    \cup {[at |-> "meta", saved |-> objs, metas |-> j] : j \in 0..(Len(meta) - 1)}

\* The rows lines 314-324 leave in the store when the store fails at `fault`.
Persisted(st, revision_set, saved_objs, fault) ==
    [user |-> st.user,
     comment |-> st.comment,
     versions |-> BagOf(revision_set,
                        IF fault.at = "version" THEN fault.saved ELSE saved_objs),
     meta |-> CASE fault.at = "version" -> <<>>
                [] fault.at = "meta" -> SubSeq(st.meta, 1, fault.metas)
                [] OTHER -> st.meta]

\* line 287 without the is_invalid test
NothingToCommit_IgnoreInvalid(st) == DOMAIN st.objects = {}

\* line 287 without the test of models
NothingToCommit_IgnoreEmpty(st) == st.is_invalid

\* line 287, negated: `if models and not self.is_invalid()`
NothingToCommit(st) == DOMAIN st.objects = {} \/ st.is_invalid

AllFaults == Faults({o \in Objs : ~IsProxy(ClassOf(o))}, [i \in 1..MaxMeta |-> "Meta"])

\* What the try block of end gives: err, the exception raised; revisions, the
\* Revision table afterwards; reached, whether the store can fail as `fault`
\* says (a run that never gets to the store goes with NoFault only).
Unsaved(err, fault) == [err |-> err, revisions |-> revisions, reached |-> fault = NoFault]

\* lines 297-324: new_versions are the versions of saved_objs in revision_set
CommitVersions(st, revision_set, saved_objs, fault) ==
    IF st.ignore_duplicates /\ saved_objs = {}
    THEN Unsaved(TypeError, fault)           \* reduce() of an empty list
    ELSE IF st.ignore_duplicates /\ ~SaveRevision(BagOf(revision_set, saved_objs))
    THEN Unsaved(NoError, fault)
    ELSE IF fault \notin Faults(saved_objs, st.meta)
    THEN [err |-> NoError, revisions |-> revisions, reached |-> FALSE]
    ELSE IF fault.at = "revision"
    THEN [err |-> DatabaseError, revisions |-> revisions, reached |-> TRUE]
    ELSE [err |-> IF fault = NoFault THEN NoError ELSE DatabaseError,
          revisions |-> Append(revisions, Persisted(st, revision_set, saved_objs, fault)),
          reached |-> TRUE]

\* every object of revision_set saved, proxies too
SavedObjs_WithProxies(revision_set) == DOMAIN revision_set

\* lines 292-296: the objects of revision_set that are saved, proxies left out
SavedObjs(revision_set) == {o \in DOMAIN revision_set : ~IsProxy(ClassOf(o))}

\* lines 289-324: closure is what follow_relationships gave
CommitClosure(st, closure, fault) ==
    IF closure.err # NoError THEN Unsaved(closure.err, fault)
    ELSE CommitVersions(st, closure.result, SavedObjs(closure.result), fault)

\* lines 286-324: the body of the try block of end, the store failing at `fault`;
\* st is the thread's RevisionState.
Commit(st, order, fault) ==
    IF NothingToCommit(st) THEN Unsaved(NoError, fault)
    ELSE CommitClosure(st, follow_relationships(st.objects, order), fault)

\* ------------------------------------------------------- the operations
\* What `last` records: nothing of a call that returned, and of a call that
\* raised, the call, its thread and the exception.
Returned == [op |-> "", t |-> "", err |-> NoError]
Ran(op, t, err) == IF err = NoError THEN Returned ELSE [op |-> op, t |-> t, err |-> err]

Hosts == <<pk, fieldval, related>>
Setup == <<registry, connected>>

\* RevisionManager.start
start(t) ==
    /\ state[t].depth < MaxDepth
    /\ state' = [state EXCEPT ![t].depth = @ + 1]
    /\ balance' = [balance EXCEPT ![t] = @ + 1]
    /\ last' = Ran("start", t, NoError)
    /\ UNCHANGED <<Setup, Hosts, frames, revisions>>

\* add keeping the entry an object already has
add_KeepingFirst(t, obj, type_flag) ==
    LET vd == get_version_data(obj, type_flag) IN
    /\ IF ~is_active(t)
       THEN /\ last' = Ran("add", t, RevisionManagementError)
            /\ UNCHANGED state
       ELSE IF vd.err # NoError
       THEN /\ last' = Ran("add", t, vd.err)
            /\ UNCHANGED state
       ELSE /\ state' = [state EXCEPT ![t].objects =
                            IF obj \in DOMAIN @ THEN @ ELSE Put(@, obj, vd.data)]
            /\ last' = Ran("add", t, NoError)
    /\ UNCHANGED <<Setup, Hosts, frames, balance, revisions>>

\* RevisionManager.add
add(t, obj, type_flag) ==
    LET vd == get_version_data(obj, type_flag) IN
    /\ IF ~is_active(t)
       THEN /\ last' = Ran("add", t, RevisionManagementError)
            /\ UNCHANGED state
       ELSE IF vd.err # NoError
       THEN /\ last' = Ran("add", t, vd.err)
            /\ UNCHANGED state
       ELSE /\ state' = [state EXCEPT ![t].objects = Put(@, obj, vd.data)]
            /\ last' = Ran("add", t, NoError)
    /\ UNCHANGED <<Setup, Hosts, frames, balance, revisions>>

\* RevisionManager.set_user
set_user(t, user) ==
    /\ IF ~is_active(t)
       THEN /\ last' = Ran("set_user", t, RevisionManagementError)
            /\ UNCHANGED state
       ELSE /\ state' = [state EXCEPT ![t].user = user]
            /\ last' = Ran("set_user", t, NoError)
    /\ UNCHANGED <<Setup, Hosts, frames, balance, revisions>>

\* RevisionManager.set_comment
set_comment(t, comment) ==
    /\ IF ~is_active(t)
       THEN /\ last' = Ran("set_comment", t, RevisionManagementError)
            /\ UNCHANGED state
       ELSE /\ state' = [state EXCEPT ![t].comment = comment]
            /\ last' = Ran("set_comment", t, NoError)
    /\ UNCHANGED <<Setup, Hosts, frames, balance, revisions>>

\* RevisionManager.add_meta
add_meta(t, cls) ==
    /\ Len(state[t].meta) < MaxMeta
    /\ IF ~is_active(t)
       THEN /\ last' = Ran("add_meta", t, RevisionManagementError)
            /\ UNCHANGED state
       ELSE /\ state' = [state EXCEPT ![t].meta = Append(@, cls)]
            /\ last' = Ran("add_meta", t, NoError)
    /\ UNCHANGED <<Setup, Hosts, frames, balance, revisions>>

\* RevisionManager.set_ignore_duplicates
set_ignore_duplicates(t, ignore_duplicates) ==
    /\ IF ~is_active(t)
       THEN /\ last' = Ran("set_ignore_duplicates", t, RevisionManagementError)
            /\ UNCHANGED state
       ELSE /\ state' = [state EXCEPT ![t].ignore_duplicates = ignore_duplicates]
            /\ last' = Ran("set_ignore_duplicates", t, NoError)
    /\ UNCHANGED <<Setup, Hosts, frames, balance, revisions>>

\* invalidate on a state that the threads share
invalidate_Shared(t) ==
    /\ IF ~is_active(t)
       THEN /\ last' = Ran("invalidate", t, RevisionManagementError)
            /\ UNCHANGED state
       ELSE /\ state' = [u \in Threads |-> [state[u] EXCEPT !.is_invalid = TRUE]]
            /\ last' = Ran("invalidate", t, NoError)
    /\ UNCHANGED <<Setup, Hosts, frames, balance, revisions>>

\* RevisionManager.invalidate
invalidate(t) ==
    /\ IF ~is_active(t)
       THEN /\ last' = Ran("invalidate", t, RevisionManagementError)
            /\ UNCHANGED state
       ELSE /\ state' = [state EXCEPT ![t].is_invalid = TRUE]
            /\ last' = Ran("invalidate", t, NoError)
    /\ UNCHANGED <<Setup, Hosts, frames, balance, revisions>>

\* The open helper frames whose work a call of end at this depth unbalances:
\* those entered at this depth or deeper.
Unbalance(fs, depth) ==
    [i \in 1..Len(fs) |-> IF fs[i].level >= depth
                          THEN [fs[i] EXCEPT !.balanced = FALSE] ELSE fs[i]]

\* the finally clause clearing the state only when the try block raised nothing
Finally_OnSuccess(st, err) ==
    IF err = NoError THEN ClearedState ELSE [st EXCEPT !.depth = 0]

\* lines 325-326: the finally clause; st is the state with depth decremented,
\* err the exception of the try block
Finally(st, err) == ClearedState

\* lines 284-326 at the outermost exit; c is what the try block gave
Outermost(st, c) ==
    [state |-> Finally([st EXCEPT !.depth = @ - 1], c.err),
     revisions |-> c.revisions, err |-> c.err, reached |-> c.reached]

\* lines 282-284 at an inner exit
Inner(st, fault) ==
    [state |-> [st EXCEPT !.depth = @ - 1], revisions |-> revisions,
     err |-> NoError, reached |-> fault = NoFault]

\* end running the commit at every exit, not only the outermost
EndActive_EveryExit(st, order, fault) ==
    IF st.depth - 1 = 0
    THEN Outermost(st, Commit(st, order, fault))
    ELSE [Outermost(st, Commit(st, order, fault)) EXCEPT !.state = [st EXCEPT !.depth = @ - 1]]

\* lines 282-326 of end, once assert_active has passed, run on the RevisionState
\* st: the state and the store afterwards, and the exception raised.
EndActive(st, order, fault) ==
    IF st.depth - 1 = 0
    THEN Outermost(st, Commit(st, order, fault))
    ELSE Inner(st, fault)

\* The step of a call `op` of thread t that has run end past assert_active with
\* outcome e: fs are the helper frames left open, passing the exception that
\* passes through the call when end raises nothing.
Ended(t, op, e, fs, passing) ==
    /\ e.reached
    /\ state' = [state EXCEPT ![t] = e.state]
    /\ revisions' = e.revisions
    /\ balance' = [balance EXCEPT ![t] = @ - 1]
    /\ frames' = [frames EXCEPT ![t] = Unbalance(fs, state[t].depth)]
    /\ last' = Ran(op, t, IF e.err # NoError THEN e.err ELSE passing)

\* RevisionManager.end; faults: where the store may fail during this call
end(t, faults) ==
    /\ IF ~is_active(t)
       THEN /\ last' = Ran("end", t, RevisionManagementError)
            /\ UNCHANGED <<state, balance, frames, revisions>>
       ELSE \E order \in Orders(DOMAIN state[t].objects), fault \in faults :
                Ended(t, "end", EndActive(state[t], order, fault), frames[t], NoError)
    /\ UNCHANGED <<Setup, Hosts>>

\* ------------------------------------------------ the high-level helpers
\* An open helper call: which helper, the depth its start() reached, whether the
\* work inside has kept start/end balanced so far, and whether the work has raised.
Frame(kind, level) ==
    [kind |-> kind, level |-> level, balanced |-> TRUE, raised |-> FALSE]

\* RevisionManager.__enter__
__enter__(t) ==
    /\ state[t].depth < MaxDepth
    /\ Len(frames[t]) < MaxFrames
    /\ state' = [state EXCEPT ![t].depth = @ + 1]
    /\ balance' = [balance EXCEPT ![t] = @ + 1]
    /\ frames' = [frames EXCEPT ![t] = Append(@, Frame("with", state[t].depth + 1))]
    /\ last' = Ran("__enter__", t, NoError)
    /\ UNCHANGED <<Setup, Hosts, revisions>>

\* create_on_success, up to the call of func: self.start()
call_on_success(t) ==
    /\ state[t].depth < MaxDepth
    /\ Len(frames[t]) < MaxFrames
    /\ state' = [state EXCEPT ![t].depth = @ + 1]
    /\ balance' = [balance EXCEPT ![t] = @ + 1]
    /\ frames' = [frames EXCEPT ![t] = Append(@, Frame("decorator", state[t].depth + 1))]
    /\ last' = Ran("call_on_success", t, NoError)
    /\ UNCHANGED <<Setup, Hosts, revisions>>

\* The innermost open helper frame of t.
Top(t) == frames[t][Len(frames[t])]
Pop(fs) == SubSeq(fs, 1, Len(fs) - 1)

\* the helper forgetting to invalidate
Invalidated_Forgotten(st) == st

\* The RevisionState after invalidate() has returned.
Invalidated(st) == [st EXCEPT !.is_invalid = TRUE]

\* The block of the with statement, or func, raises.
work_raises(t) ==
    /\ frames[t] # <<>>
    /\ ~Top(t).raised
    /\ frames' = [frames EXCEPT ![t][Len(frames[t])].raised = TRUE]
    /\ last' = Ran("work", t, WorkError)
    /\ UNCHANGED <<Setup, Hosts, state, balance, revisions>>

\* The state end runs on: after invalidate() when the work raised.
AtExit(st, failed) == IF failed THEN Invalidated(st) ELSE st

\* The exception of the work, which passes through the helper.
Passing(failed) == IF failed THEN WorkError ELSE NoError

\* RevisionManager.__exit__; failed: the block raised (exc_type is not None)
__exit__(t, failed, faults) ==
    /\ frames[t] # <<>>
    /\ Top(t).kind = "with"
    /\ IF ~is_active(t)
       THEN \* invalidate(), or else end(), raises at assert_active
            /\ last' = Ran("__exit__", t, RevisionManagementError)
            /\ frames' = [frames EXCEPT ![t] = Pop(@)]
            /\ UNCHANGED <<state, balance, revisions>>
       ELSE \E order \in Orders(DOMAIN state[t].objects), fault \in faults :
                Ended(t, "__exit__", EndActive(AtExit(state[t], failed), order, fault),
                      Pop(frames[t]), Passing(failed))
    /\ UNCHANGED <<Setup, Hosts>>

\* create_on_success, from the return or the exception of func on
return_on_success(t, failed, faults) ==
    /\ frames[t] # <<>>
    /\ Top(t).kind = "decorator"
    /\ IF ~is_active(t)
       THEN \* invalidate() raises in the except clause, end() raises in the finally clause
            /\ last' = Ran("return_on_success", t, RevisionManagementError)
            /\ frames' = [frames EXCEPT ![t] = Pop(@)]
            /\ UNCHANGED <<state, balance, revisions>>
       ELSE \E order \in Orders(DOMAIN state[t].objects), fault \in faults :
                Ended(t, "return_on_success",
                      EndActive(AtExit(state[t], failed), order, fault),
                      Pop(frames[t]), Passing(failed))
    /\ UNCHANGED <<Setup, Hosts>>

\* ---------------------------------------------------------- signal receivers
\* post_save_receiver taking created for changed and the reverse
post_save_receiver_Swapped(t, obj, created) ==
    IF is_active(t)
    THEN add(t, obj, IF created THEN VERSION_CHANGE ELSE VERSION_ADD)
    ELSE /\ last' = Ran("post_save_receiver", t, NoError)
         /\ UNCHANGED <<Setup, Hosts, state, frames, balance, revisions>>

\* RevisionManager.post_save_receiver
post_save_receiver(t, obj, created) ==
    IF is_active(t)
    THEN add(t, obj, IF created THEN VERSION_ADD ELSE VERSION_CHANGE)
    ELSE /\ last' = Ran("post_save_receiver", t, NoError)
         /\ UNCHANGED <<Setup, Hosts, state, frames, balance, revisions>>

\* RevisionManager.pre_delete_receiver
pre_delete_receiver(t, obj) ==
    IF is_active(t)
    THEN add(t, obj, VERSION_DELETE)
    ELSE /\ last' = Ran("pre_delete_receiver", t, NoError)
         /\ UNCHANGED <<Setup, Hosts, state, frames, balance, revisions>>

\* request_finished_receiver raising nothing
request_finished_receiver_Silent(t) ==
    /\ last' = Ran("request_finished_receiver", t, NoError)
    /\ UNCHANGED <<Setup, Hosts, state, frames, balance, revisions>>

\* request_finished_receiver closing the open revision before it raises
request_finished_receiver_Closing(t) ==
    /\ last' = Ran("request_finished_receiver", t,
                   IF is_active(t) THEN RevisionManagementError ELSE NoError)
    /\ state' = [state EXCEPT ![t] = ClearedState]
    /\ UNCHANGED <<Setup, Hosts, frames, balance, revisions>>

\* RevisionManager.request_finished_receiver, run in thread t
request_finished_receiver(t) ==
    /\ last' = Ran("request_finished_receiver", t,
                   IF is_active(t) THEN RevisionManagementError ELSE NoError)
    /\ UNCHANGED <<Setup, Hosts, state, frames, balance, revisions>>

\* ------------------------------------------------------------ registration
\* register without the test of lines 85-86
register_Overwriting(model_class, fields, follow, format) ==
    /\ IF IsProxy(model_class) /\ ~is_registered(ParentClass(model_class))
       THEN /\ last' = Ran("register", "main", ParentNotRegisteredError)
            /\ UNCHANGED Setup
       ELSE /\ registry' = Put(registry, model_class,
                                RegistrationInfo(fields, follow, format))
            /\ connected' = connected \cup {model_class}
            /\ last' = Ran("register", "main", NoError)
    /\ UNCHANGED <<state, frames, balance, Hosts, revisions>>

\* RevisionManager.register
register(model_class, fields, follow, format) ==
    /\ IF is_registered(model_class)
       THEN /\ last' = Ran("register", "main", AlreadyRegisteredError)
            /\ UNCHANGED Setup
       ELSE IF IsProxy(model_class) /\ ~is_registered(ParentClass(model_class))
       THEN /\ last' = Ran("register", "main", ParentNotRegisteredError)
            /\ UNCHANGED Setup
       ELSE /\ registry' = Put(registry, model_class,
                                RegistrationInfo(fields, follow, format))
            /\ connected' = connected \cup {model_class}
            /\ last' = Ran("register", "main", NoError)
    /\ UNCHANGED <<state, frames, balance, Hosts, revisions>>

\* RevisionManager.unregister
unregister(model_class) ==
    /\ IF ~is_registered(model_class)
       THEN /\ last' = Ran("unregister", "main", RegistrationError)
            /\ UNCHANGED Setup
       ELSE /\ registry' = [c \in DOMAIN registry \ {model_class} |-> registry[c]]
            /\ connected' = connected \ {model_class}
            /\ last' = Ran("unregister", "main", NoError)
    /\ UNCHANGED <<state, frames, balance, Hosts, revisions>>

\* ------------------------------------------------------------------- host
\* The host changes a field of an instance.
SetField(obj, field, value) ==
    /\ fieldval[obj][field] # value
    /\ fieldval' = [fieldval EXCEPT ![obj][field] = value]
    /\ last' = Ran("SetField", "main", NoError)
    /\ UNCHANGED <<Setup, state, frames, balance, pk, related, revisions>>

\* The host deletes an instance: Django sets its pk to None.
Delete(obj) ==
    /\ pk[obj] # NoPk
    /\ pk' = [pk EXCEPT ![obj] = NoPk]
    /\ last' = Ran("Delete", "main", NoError)
    /\ UNCHANGED <<Setup, state, frames, balance, fieldval, related, revisions>>

\* The host changes what a relationship attribute of an instance resolves to.
SetRelated(obj, relationship, value) ==
    /\ related[obj][relationship] # value
    /\ related' = [related EXCEPT ![obj][relationship] = value]
    /\ last' = Ran("SetRelated", "main", NoError)
    /\ UNCHANGED <<Setup, state, frames, balance, pk, fieldval, revisions>>

\* ------------------------------------------------------------------- Init
\* RevisionManager.__init__ and RevisionState.__init__, and the host's instances
Init ==
    /\ registry = EmptyMap
    /\ connected = {}
    /\ state = [t \in Threads |-> ClearedState]
    /\ frames = [t \in Threads |-> <<>>]
    /\ balance = [t \in Threads |-> 0]
    /\ pk = [o \in Objs |-> LoadedPk(o)]
    /\ fieldval = [o \in Objs |-> [f \in FieldNames |-> 0]]
    /\ related = [o \in Objs |-> [r \in RelNames |-> RelNone]]
    /\ revisions = <<>>
    /\ last = Returned

\* ------------------------------------------------------- specifications
AllFields == FieldNames
FieldValues == {0, 1}

\* A thread whose helper's work has raised runs nothing before the helper's exit.
Running(t) == IF frames[t] = <<>> THEN TRUE ELSE ~Top(t).raised

\* The scope lifecycle of one thread over one registered class.
Next ==
    \/ register("Article", AllFields, <<>>, DEFAULT_SERIALIZATION_FORMAT)
    \/ start("t1")
    \/ \E f \in {VERSION_ADD, VERSION_CHANGE} : add("t1", "a1", f)
    \/ set_user("t1", "alice")
    \/ set_comment("t1", "edited")
    \/ add_meta("t1", "Meta")
    \/ set_ignore_duplicates("t1", TRUE)
    \/ invalidate("t1")
    \/ end("t1", {NoFault}) /\ Len(revisions') <= MaxRevisions

Spec == Init /\ [][Next]_vars

\* Every way out of the outermost exit: Article follows r1, which the host
\* points at an Author instance or at something that is no model; Author is
\* unregistered, registered, or registered with a format no serializer knows;
\* and the store fails anywhere.
NextFail ==
    \/ register("Article", AllFields, <<"r1">>, DEFAULT_SERIALIZATION_FORMAT)
    \/ \E f \in {DEFAULT_SERIALIZATION_FORMAT, "bogus"} : register("Author", AllFields, <<>>, f)
    \/ \E v \in {RelModel("u1"), RelOther} : SetRelated("a1", "r1", v)
    \/ start("t1")
    \/ add("t1", "a1", VERSION_CHANGE)
    \/ set_user("t1", "alice")
    \/ add_meta("t1", "Meta")
    \/ set_ignore_duplicates("t1", TRUE)
    \/ invalidate("t1")
    \/ end("t1", AllFaults) /\ Len(revisions') <= MaxRevisions

SpecFail == Init /\ [][NextFail]_vars

\* The helpers around work that starts, captures, invalidates, ends and raises.
NextHelper ==
    \/ register("Article", AllFields, <<>>, DEFAULT_SERIALIZATION_FORMAT)
    \/ Running("t1") /\ start("t1")
    \/ Running("t1") /\ add("t1", "a1", VERSION_CHANGE)
    \/ Running("t1") /\ invalidate("t1")
    \/ Running("t1") /\ end("t1", {NoFault}) /\ Len(revisions') <= MaxRevisions
    \/ Running("t1") /\ __enter__("t1")
    \/ Running("t1") /\ call_on_success("t1")
    \/ Running("t1") /\ work_raises("t1")
    \/ frames["t1"] # <<>> /\ __exit__("t1", Top("t1").raised, {NoFault})
                           /\ Len(revisions') <= MaxRevisions
    \/ frames["t1"] # <<>> /\ return_on_success("t1", Top("t1").raised, {NoFault})
                           /\ Len(revisions') <= MaxRevisions

SpecHelper == Init /\ [][NextHelper]_vars

\* ----------------------------------------------------------------- claims
\* The accessors and exits that assert_active guards.
ScopedCalls == {"add", "set_user", "set_comment", "add_meta", "set_ignore_duplicates",
                "invalidate", "end"}

\* C1: a revision is saved only by the step that takes a thread's depth from 1
\* to 0, and that step saves at most one; a step that lowers the depth and
\* leaves it above 0 changes nothing but the depth, and not the store; and
\* whenever as many ends as starts have run, the depth is 0.
C1_CommitAtOutermostExit ==
    [][/\ revisions' # revisions =>
            /\ \E t \in Threads : state[t].depth = 1 /\ state'[t].depth = 0
            /\ Len(revisions') = Len(revisions) + 1
            /\ SubSeq(revisions', 1, Len(revisions)) = revisions
       /\ \A t \in Threads :
            /\ state'[t].depth < state[t].depth => state'[t].depth = state[t].depth - 1
            /\ (state'[t].depth < state[t].depth /\ state'[t].depth > 0) =>
                    /\ state'[t] = [state[t] EXCEPT !.depth = @ - 1]
                    /\ revisions' = revisions
            /\ balance'[t] = state'[t].depth]_vars

\* C1's case: an outermost exit has saved a revision and the calls are balanced.
C1_Witness ==
    /\ Len(revisions) = 1
    /\ balance["t1"] = 0
    /\ state["t1"] = ClearedState

\* C3: from a state in which a thread is idle, a step either leaves that
\* thread's state as it is or is start (depth 0 to 1, nothing else); a guarded
\* call by the idle thread raises RevisionManagementError and changes neither
\* the scope state nor the store; while every thread is idle no call returns
\* without an effect (the guarded calls do not pass silently); and the depth
\* is never negative.
C3_IdleCallsFail ==
    [][/\ \A t \in Threads :
            /\ state[t].depth = 0 =>
                /\ state'[t] = state[t] \/ state'[t] = [state[t] EXCEPT !.depth = 1]
                /\ (last' # last /\ last'.t = t /\ last'.op \in ScopedCalls) =>
                        /\ last'.err = RevisionManagementError
                        /\ UNCHANGED <<state, revisions, balance>>
            /\ state'[t].depth >= 0
       /\ ((\A t \in Threads : state[t].depth = 0) /\ last' = Returned /\ last # Returned) =>
            ~UNCHANGED <<registry, connected, state, frames, Hosts>>]_vars

\* C3's case: end has been called on an idle thread and has raised.
C3_Witness ==
    /\ last = [op |-> "end", t |-> "t1", err |-> RevisionManagementError]
    /\ state["t1"] = ClearedState

\* C4: once is_invalid is set it stays set until the step that takes the depth
\* from 1 to 0; no step of the invalidated thread changes the store, and the
\* outermost exit raises nothing.
C4_InvalidatedScopeSavesNothing ==
    [][\A t \in Threads : state[t].is_invalid =>
        /\ state'[t] # state[t] => revisions' = revisions
        /\ \/ state'[t].is_invalid
           \/ /\ state[t].depth = 1
              /\ state'[t] = ClearedState
              /\ last' = Returned]_vars

\* C4's case: an invalidated outermost scope holding a captured object, about to exit.
C4_Witness ==
    /\ state["t1"].is_invalid
    /\ state["t1"].depth = 1
    /\ DOMAIN state["t1"].objects # {}
    /\ state["t1"].meta # <<>>

\* C2: the step that takes a thread's depth from 1 to 0 leaves that thread's
\* whole RevisionState at its defaults, whatever the commit did or raised.
C2_ClearedOnEveryExit ==
    [][\A t \in Threads :
        (state[t].depth = 1 /\ state'[t].depth = 0) => state'[t] = ClearedState]_vars

\* C2's case: the store failed after the revision row was saved, and the state
\* is cleared all the same.
C2_Witness ==
    /\ last = [op |-> "end", t |-> "t1", err |-> DatabaseError]
    /\ Len(revisions) = 1
    /\ state["t1"] = ClearedState

\* The helper calls.
HelperExits == {"__exit__", "return_on_success"}

\* C5: a step that opens a helper frame is one start (depth up by one, nothing
\* else); a step that closes a frame whose work kept start and end balanced is
\* one end, after an invalidate when the work raised: the depth goes down by
\* one, or the state is cleared at depth 1. When the work raised, the exit
\* raises the work's exception and saves nothing, and an enclosing scope is
\* left invalid, so that no later step of the thread saves anything for it.
C5_HelperIsOneStartOneEnd ==
    [][\A t \in Threads :
        /\ Len(frames'[t]) = Len(frames[t]) + 1 =>
            /\ state'[t] = [state[t] EXCEPT !.depth = @ + 1]
            /\ balance'[t] = balance[t] + 1
            /\ revisions' = revisions
        /\ (/\ Len(frames'[t]) = Len(frames[t]) - 1
            /\ Top(t).balanced
            /\ state[t].depth = Top(t).level) =>
            /\ balance'[t] = balance[t] - 1
            /\ state'[t] = IF state[t].depth = 1 THEN ClearedState
                           ELSE [state[t] EXCEPT !.depth = @ - 1,
                                                 !.is_invalid = @ \/ Top(t).raised]
            /\ Top(t).raised =>
                    /\ last'.op \in HelperExits /\ last'.t = t /\ last'.err = WorkError
                    /\ revisions' = revisions
            /\ ~Top(t).raised => last'.err # WorkError
        /\ (state[t].is_invalid /\ state'[t] # state[t]) =>
            /\ revisions' = revisions
            /\ state'[t].is_invalid \/ state'[t] = ClearedState]_vars

\* C5's case: the work of a helper nested in a scope that holds a captured
\* object has raised, and the helper has exited with the work's exception.
C5_Witness ==
    /\ last.op \in HelperExits /\ last.err = WorkError
    /\ frames["t1"] = <<>>
    /\ state["t1"].depth = 1
    /\ state["t1"].is_invalid
    /\ DOMAIN state["t1"].objects # {}


\* ------------------------------------------------------ duplicate detection
\* How many revisions the runs of the duplicate detection may store.
MaxHistory == MaxRevisions + 1

\* Scopes of one thread, one after another, over two classes registered
\* without follow relationships, "title" being the one serialized field; the
\* host changes the fields between and within the scopes.
NextDup ==
    \/ register("Article", {"title"}, <<>>, DEFAULT_SERIALIZATION_FORMAT)
    \/ register("Author", {"title"}, <<>>, DEFAULT_SERIALIZATION_FORMAT)
    \/ state["t1"].depth = 0 /\ start("t1")
    \/ \E o \in {"a1", "u1"} : add("t1", o, VERSION_CHANGE)
    \/ \E b \in BOOLEAN : set_ignore_duplicates("t1", b)
    \/ \E o \in {"a1", "u1"}, v \in FieldValues : SetField(o, "title", v)
    \/ end("t1", {NoFault}) /\ Len(revisions') <= MaxHistory

SpecDup == Init /\ [][NextDup]_vars

\* The revisions with a member of the identity that version_data carries.
Capturing(version_data) ==
    {i \in 1..Len(revisions) :
        \E v \in DOMAIN revisions[i].versions :
            /\ v.object_id = version_data.object_id
            /\ v.content_type = version_data.content_type}

\* The most recent of a non-empty set of revisions.
Latest(S) == CHOOSE i \in S : \A j \in S : j <= i

\* The payloads of the members of revision i.
Payloads(i) == {v.serialized_data : v \in DOMAIN revisions[i].versions}

\* Thread t leaves its outermost scope in this step.
OutermostExit(t) == state[t].depth = 1 /\ state'[t].depth = 0

\* The step persists exactly one revision, of n members, whose payloads are P.
PersistsOne(n, P) ==
    /\ Len(revisions') = Len(revisions) + 1
    /\ SubSeq(revisions', 1, Len(revisions)) = revisions
    /\ BagCardinality(revisions'[Len(revisions')].versions) = n
    /\ {v.serialized_data : v \in DOMAIN revisions'[Len(revisions')].versions} = P

\* C6: with ignore_duplicates set, leaving the outermost scope that captured
\* one object of a class without follow relationships, whose latest revision
\* has that one member, persists nothing when the captured payload is the
\* payload of that member, and otherwise persists one revision of one member
\* whose payload differs from it.
C6_UnchangedObjectIsSkipped ==
    [][\A o \in Objs :
        (/\ OutermostExit("t1")
         /\ state["t1"].ignore_duplicates
         /\ ~state["t1"].is_invalid
         /\ DOMAIN state["t1"].objects = {o}
         /\ Capturing(state["t1"].objects[o]) # {}
         /\ BagCardinality(revisions[Latest(Capturing(state["t1"].objects[o]))].versions) = 1)
        => IF state["t1"].objects[o].serialized_data
                \in Payloads(Latest(Capturing(state["t1"].objects[o])))
           THEN revisions' = revisions
           ELSE /\ PersistsOne(1, {state["t1"].objects[o].serialized_data})
                /\ \A v \in DOMAIN revisions'[Len(revisions')].versions :
                       v.serialized_data
                           \notin Payloads(Latest(Capturing(state["t1"].objects[o])))]_vars

\* A changed a1 has been persisted after its first revision, and a scope that
\* captured it again, unchanged, is about to end.
C6_Witness ==
    /\ Len(revisions) = 2
    /\ BagCardinality(revisions[1].versions) = 1
    /\ BagCardinality(revisions[2].versions) = 1
    /\ Payloads(1) # Payloads(2)
    /\ state["t1"].depth = 1
    /\ state["t1"].ignore_duplicates
    /\ ~state["t1"].is_invalid
    /\ DOMAIN state["t1"].objects = {"a1"}
    /\ Capturing(state["t1"].objects["a1"]) = {1, 2}
    /\ state["t1"].objects["a1"].serialized_data \in Payloads(2)


\* Scopes of one thread over Article and its proxy: the pre_delete receiver
\* captures the proxy instance p1 with VERSION_DELETE and the host deletes it.
NextProxy ==
    \/ register("Article", {"title"}, <<>>, DEFAULT_SERIALIZATION_FORMAT)
    \/ register("ArticleProxy", {"title"}, <<>>, DEFAULT_SERIALIZATION_FORMAT)
    \/ state["t1"].depth = 0 /\ start("t1")
    \/ add("t1", "a1", VERSION_CHANGE)
    \/ add("t1", "p1", VERSION_DELETE)
    \/ \E b \in BOOLEAN : set_ignore_duplicates("t1", b)
    \/ \E v \in FieldValues : SetField("a1", "title", v)
    \/ Delete("p1")
    \/ end("t1", {NoFault}) /\ Len(revisions') <= MaxHistory

SpecProxy == Init /\ [][NextProxy]_vars

\* The members of the revision that the scope st is about to persist: the
\* closure of the captured objects, proxies left out.
Candidate(st) ==
    BagOf(follow_relationships(st.objects, CHOOSE order \in Orders(DOMAIN st.objects) : TRUE).result,
          SavedObjs(follow_relationships(st.objects, CHOOSE order \in Orders(DOMAIN st.objects) : TRUE).result))

\* The revisions with a member of the identity of a member of candidate.
Matches(candidate) ==
    UNION {Capturing(n) : n \in DOMAIN candidate}

\* Conditions (1) to (3): a stored member matches a candidate member, and the
\* most recent revision with such a member has as many members as the
\* candidate, and the same payloads as many times each.
IsDuplicate(candidate) ==
    /\ Matches(candidate) # {}
    /\ BagCardinality(revisions[Latest(Matches(candidate))].versions) = BagCardinality(candidate)
    /\ SerializedData(revisions[Latest(Matches(candidate))].versions) = SerializedData(candidate)

\* C7: leaving the outermost scope with objects captured and the scope not
\* invalidated persists nothing if ignore_duplicates is set and conditions (1)
\* to (3) hold, and in every other case persists exactly one revision with all
\* the candidate members.
C7_SkipsExactlyTheDuplicates ==
    [][(/\ OutermostExit("t1")
        /\ DOMAIN state["t1"].objects # {}
        /\ ~state["t1"].is_invalid)
       => IF state["t1"].ignore_duplicates /\ IsDuplicate(Candidate(state["t1"]))
          THEN revisions' = revisions
          ELSE /\ Len(revisions') = Len(revisions) + 1
               /\ SubSeq(revisions', 1, Len(revisions)) = revisions
               /\ revisions'[Len(revisions')].versions = Candidate(state["t1"])]_vars


\* ------------------------------------------------------------------ closure
\* Scopes of one thread over a relationship graph the host rewires: Article and
\* Author follow r1, which resolves to nothing, to one instance or to a
\* manager of several, cycles included; a1 may be deleted.
NextClosure ==
    \/ register("Article", AllFields, <<"r1">>, DEFAULT_SERIALIZATION_FORMAT)
    \/ register("Author", AllFields, <<"r1">>, DEFAULT_SERIALIZATION_FORMAT)
    \/ register("ArticleProxy", AllFields, <<>>, DEFAULT_SERIALIZATION_FORMAT)
    \/ \E v \in {RelDoesNotExist, RelModel("u1"), RelManager(<<"u1", "p1">>)} :
           SetRelated("a1", "r1", v)
    \/ \E v \in {RelNone, RelModel("a1"), RelModel("p1")} : SetRelated("u1", "r1", v)
    \/ Delete("a1")
    \/ state["t1"].depth = 0 /\ start("t1")
    \/ add("t1", "a1", VERSION_ADD)
    \/ add("t1", "u1", VERSION_DELETE)
    \/ add("t1", "p1", VERSION_CHANGE)
    \/ end("t1", {NoFault}) /\ Len(revisions') <= MaxRevisions

SpecClosure == Init /\ [][NextClosure]_vars

\* The traversal of the objects thread t has captured, its keys taken in `order`.
TraversalOf(t, order) == FollowEach(order, 1, NewTraversal, RecursionLimit)

\* No object occurs twice in the sequence.
NoRepeats(seq) == \A i, j \in 1..Len(seq) : seq[i] = seq[j] => i = j

\* The members of revision i that are versions of object o.
MembersOf(i, o) == {v \in DOMAIN revisions[i].versions : v.object_repr = o}

\* C8: whatever the relationship graph and whatever was captured, the traversal
\* comes back within RecursionLimit nested calls and snapshots no object twice;
\* and a revision that is persisted holds each object once.
C8_ClosureTerminates ==
    /\ [](\A order \in Orders(DOMAIN state["t1"].objects) :
            /\ TraversalOf("t1", order).err # RuntimeError
            /\ NoRepeats(TraversalOf("t1", order).log))
    /\ [][\A o \in Objs :
            (OutermostExit("t1") /\ revisions' # revisions)
            => /\ Cardinality(MembersOf(Len(revisions), o)') <= 1
               /\ \A v \in MembersOf(Len(revisions), o)' :
                      revisions'[Len(revisions')].versions[v] = 1]_vars

\* a1 and u1 follow each other, and a revision holds one version of each.
C8_Witness ==
    /\ related["a1"]["r1"] = RelModel("u1")
    /\ related["u1"]["r1"] = RelModel("a1")
    /\ Len(revisions) = 1
    /\ Cardinality(MembersOf(1, "a1")) = 1
    /\ Cardinality(MembersOf(1, "u1")) = 1
    /\ BagCardinality(revisions[1].versions) = 2

\* The object has a primary key.
HasIdentity(o) == pk[o] # NoPk

\* The objects the follow relationships registered for o's class resolve to.
FollowTargets(o) ==
    IF is_registered(ClassOf(o))
    THEN UNION {{related[o][registry[ClassOf(o)].follow[i]].objs[k] :
                    k \in 1..Len(related[o][registry[ClassOf(o)].follow[i]].objs)} :
                i \in 1..Len(registry[ClassOf(o)].follow)}
    ELSE {}

\* The instance of the registered parent class that a proxy instance stands for.
BaseTargets(o) ==
    IF IsProxy(ClassOf(o)) /\ is_registered(ParentClass(ClassOf(o)))
    THEN ParentObjs(o)
    ELSE {}

\* The objects within n follow relationships of an object of S.
RECURSIVE FollowedFrom(_, _)
FollowedFrom(S, n) ==
    IF n = 0 THEN S
    ELSE FollowedFrom(S \cup UNION {FollowTargets(o) : o \in S}, n - 1)

\* The objects with a primary key within n links of an object of S, a link
\* being a follow relationship or the step from a proxy to its registered
\* parent, and every object on the way having a primary key.
RECURSIVE TraversedFrom(_, _)
TraversedFrom(S, n) ==
    IF n = 0 THEN S
    ELSE TraversedFrom(S \cup {x \in UNION {FollowTargets(o) \cup BaseTargets(o) : o \in S} :
                                  HasIdentity(x)},
                       n - 1)

\* The keys the claim gives the closure of the captured objects.
FollowedKeys(captured) ==
    captured \cup {o \in FollowedFrom(captured, Cardinality(Objs)) : HasIdentity(o)}

\* The keys of the closure of the captured objects, proxies' parents included
\* and nothing followed from an object without a primary key.
TraversedKeys(captured) ==
    captured \cup TraversedFrom({o \in captured : HasIdentity(o)}, Cardinality(Objs))

\* The captured objects keep what add stored; the others are CHANGE snapshots.
CapturedOnTop(result, captured) ==
    /\ \A o \in DOMAIN captured : o \in DOMAIN result /\ result[o] = captured[o]
    /\ \A o \in DOMAIN result \ DOMAIN captured : result[o].type = VERSION_CHANGE

BadTargetOf(captured, o) ==
    /\ DOMAIN captured = {o}
    /\ HasIdentity(o)
    /\ is_registered(ClassOf(o))
    /\ registry[ClassOf(o)].format \in SupportedFormats
    /\ registry[ClassOf(o)].follow # <<>>
    /\ related[o][registry[ClassOf(o)].follow[1]] = RelOther

\* C10: leaving the outermost scope, not invalidated, whose closure resolves a
\* relationship to a value that is no model instance, no manager and not None,
\* raises TypeError from end, leaves the store as it was and clears the state.
C10_BadFollowTargetAborts ==
    [][\A o \in Objs :
        (/\ OutermostExit("t1")
         /\ ~state["t1"].is_invalid
         /\ BadTargetOf(state["t1"].objects, o))
        => /\ last' = [op |-> "end", t |-> "t1", err |-> TypeError]
           /\ revisions' = revisions
           /\ state'["t1"] = ClearedState]_vars

\* end has just raised TypeError over a1's relationship, with nothing stored.
C10_Witness ==
    /\ last = [op |-> "end", t |-> "t1", err |-> TypeError]
    /\ related["a1"]["r1"] = RelOther
    /\ revisions = <<>>
    /\ state["t1"] = ClearedState


\* ------------------------------------------------------------ registration
\* The registrations the host may ask for.
FieldChoices == {AllFields, {"title"}}
FollowChoices == {<<>>, <<"r1">>}

\* Registering and unregistering the three classes in any order.
NextRegistry ==
    \/ \E c \in Classes, fields \in FieldChoices, follow \in FollowChoices :
           register(c, fields, follow, DEFAULT_SERIALIZATION_FORMAT)
    \/ \E c \in Classes : unregister(c)

SpecRegistry == Init /\ [][NextRegistry]_vars

\* The registry without the entry of class c.
Without(c) == [k \in DOMAIN registry \ {c} |-> registry[k]]

\* What a call of register for class c does, by the claim.
RegisterContract(c, fields, follow, format) ==
    IF c \in DOMAIN registry
    THEN /\ last' = [op |-> "register", t |-> "main", err |-> AlreadyRegisteredError]
         /\ UNCHANGED <<registry, connected>>
    ELSE IF IsProxy(c) /\ ParentClass(c) \notin DOMAIN registry
    THEN /\ last' = [op |-> "register", t |-> "main", err |-> ParentNotRegisteredError]
         /\ UNCHANGED <<registry, connected>>
    ELSE /\ last' = Returned
         /\ DOMAIN registry' = DOMAIN registry \cup {c}
         /\ \A k \in DOMAIN registry : registry'[k] = registry[k]
         /\ registry'[c] = [fields |-> fields, follow |-> follow, format |-> format]
         /\ connected' = connected \cup {c}

\* What a call of unregister for class c does, by the claim.
UnregisterContract(c) ==
    IF c \notin DOMAIN registry
    THEN /\ last' = [op |-> "unregister", t |-> "main", err |-> RegistrationError]
         /\ UNCHANGED <<registry, connected>>
    ELSE /\ last' = Returned
         /\ registry' = Without(c)
         /\ connected' = connected \ {c}

\* C11: register raises for a registered class and for a proxy whose parent
\* is not registered, unregister raises for a class that is not registered,
\* and a call that raises leaves the registry and the connected receivers as
\* they were; register adds the one entry and unregister takes the one entry
\* away, so that unregistering what was just registered gives the registry
\* back.
C11_RegistrationErrors ==
    [][/\ \A c \in Classes, fields \in FieldChoices, follow \in FollowChoices :
            register(c, fields, follow, DEFAULT_SERIALIZATION_FORMAT)
            => RegisterContract(c, fields, follow, DEFAULT_SERIALIZATION_FORMAT)
       /\ \A c \in Classes : unregister(c) => UnregisterContract(c)
       /\ \A c \in Classes :
            (c \notin DOMAIN registry /\ c \in DOMAIN registry')
            => [k \in DOMAIN registry' \ {c} |-> registry'[k]] = registry]_vars

\* register has just raised for the proxy, only Author being registered.
C11_Witness ==
    /\ last = [op |-> "register", t |-> "main", err |-> ParentNotRegisteredError]
    /\ DOMAIN registry = {"Author"}
    /\ connected = {"Author"}


\* --------------------------------------------------------- signal receivers
\* The host saves and deletes instances of a registered and of an
\* unregistered class, in and out of the scopes of one thread; the signals
\* reach the receivers.
NextSignals ==
    \/ register("Article", AllFields, <<>>, DEFAULT_SERIALIZATION_FORMAT)
    \/ start("t1")
    \/ \E o \in {"a1", "u1"}, created \in BOOLEAN : post_save_receiver("t1", o, created)
    \/ \E o \in {"a1", "u1"} : pre_delete_receiver("t1", o)
    \/ \E v \in FieldValues : SetField("a1", "title", v)
    \/ Delete("a1")
    \/ end("t1", {NoFault}) /\ Len(revisions') <= MaxRevisions

SpecSignals == Init /\ [][NextSignals]_vars

\* The step leaves everything but `last` as it was and raises nothing.
ReturnsUntouched ==
    /\ last' = Returned
    /\ UNCHANGED <<registry, connected, state, frames, balance, pk, fieldval, related, revisions>>

\* C12: in an active scope post_save_receiver is add with VERSION_ADD when
\* created and with VERSION_CHANGE when not, and pre_delete_receiver is add
\* with VERSION_DELETE; at depth 0 both return, raising nothing and changing
\* nothing.
C12_ReceiversAreAdd ==
    [][\A o \in Objs :
        /\ \A created \in BOOLEAN :
              post_save_receiver("t1", o, created)
              => IF state["t1"].depth > 0
                 THEN IF created THEN add("t1", o, VERSION_ADD)
                                 ELSE add("t1", o, VERSION_CHANGE)
                 ELSE ReturnsUntouched
        /\ pre_delete_receiver("t1", o)
              => IF state["t1"].depth > 0
                 THEN add("t1", o, VERSION_DELETE)
                 ELSE ReturnsUntouched]_vars

\* The receivers have captured a1 as deleted in an open scope, and a call for
\* the unregistered u1 has raised as add does.
C12_Witness ==
    /\ state["t1"].depth = 1
    /\ "a1" \in DOMAIN state["t1"].objects
    /\ state["t1"].objects["a1"].type = VERSION_DELETE
    /\ last = [op |-> "add", t |-> "t1", err |-> RegistrationError]


\* ------------------------------------------------------- end of the request
\* Two threads open and close scopes, capture and annotate, and each may come
\* to the end of its request at any point.
NextRequest ==
    \/ register("Article", AllFields, <<>>, DEFAULT_SERIALIZATION_FORMAT)
    \/ \E t \in Threads : start(t)
    \/ add("t1", "a1", VERSION_CHANGE)
    \/ set_comment("t1", "edited")
    \/ invalidate("t1")
    \/ \E t \in Threads : end(t, {NoFault}) /\ Len(revisions') <= MaxRevisions
    \/ \E t \in Threads : request_finished_receiver(t)

SpecRequest == Init /\ [][NextRequest]_vars

\* The receiver raised for thread t in this step.
RaisedUnbalanced(t) ==
    last' = [op |-> "request_finished_receiver", t |-> t, err |-> RevisionManagementError]

\* C13: request_finished_receiver raises RevisionManagementError exactly when
\* the depth of the calling thread is greater than 0, and otherwise returns;
\* it returns whenever the thread has called end as often as start.
C13_RaisesIffScopeOpen ==
    [][\A t \in Threads :
        request_finished_receiver(t)
        => /\ RaisedUnbalanced(t) <=> state[t].depth > 0
           /\ ~RaisedUnbalanced(t) => last' = Returned
           /\ balance[t] = 0 => last' = Returned]_vars

\* The request of t2 has ended with its scope open while t1 has none open.
C13_Witness ==
    /\ last = [op |-> "request_finished_receiver", t |-> "t2", err |-> RevisionManagementError]
    /\ state["t2"].depth > 0
    /\ state["t1"].depth = 0

NextThreads ==
    \/ register("Article", AllFields, <<"r1">>, DEFAULT_SERIALIZATION_FORMAT)
    \/ register("Author", AllFields, <<>>, DEFAULT_SERIALIZATION_FORMAT)
    \/ SetRelated("a1", "r1", RelModel("u1"))
    \/ \E t \in Threads : start(t)
    \/ add("t1", "a1", VERSION_CHANGE)
    \/ add("t2", "u1", VERSION_DELETE)
    \/ set_user("t1", "alice")
    \/ add_meta("t2", "Meta")
    \/ \E t \in Threads : invalidate(t)
    \/ \E t \in Threads : end(t, {NoFault}) /\ Len(revisions') <= MaxRevisions

SpecThreads == Init /\ [][NextThreads]_vars

\* The step is a call of thread t on the manager.
CallOf(t) ==
    \/ start(t)
    \/ \E o \in Objs, f \in TypeFlags : add(t, o, f)
    \/ \E u \in Users : set_user(t, u)
    \/ \E c \in Comments : set_comment(t, c)
    \/ \E m \in MetaClasses : add_meta(t, m)
    \/ \E b \in BOOLEAN : set_ignore_duplicates(t, b)
    \/ invalidate(t)
    \/ end(t, {NoFault})

\* The step leaves the state of every thread but t as it was, and a revision
\* it persists carries the user and the meta of t and versions only of objects
\* in the closure of what t captured.
KeepsTo(t) ==
    /\ \A u \in Threads \ {t} : state'[u] = state[u]
    /\ Len(revisions') > Len(revisions)
       => /\ revisions'[Len(revisions')].user = state[t].user
          /\ revisions'[Len(revisions')].meta = state[t].meta
          /\ \A v \in DOMAIN revisions'[Len(revisions')].versions :
                 v \in DOMAIN Candidate(state[t])

\* C14: a call of one thread leaves the state of every other thread as it
\* was, and the revision it persists carries the user and the meta of the
\* calling thread and versions only of objects in the closure of what that
\* thread captured: a step that does otherwise is no call of that thread.
C14_StateIsPerThread ==
    [][\A t \in Threads : ~KeepsTo(t) => ~CallOf(t)]_vars

\* t1 has persisted a revision with u1 as its closure snapshots it, while t2
\* holds u1 captured as deleted in a scope that is still open.
C14_Witness ==
    /\ Len(revisions) = 1
    /\ revisions[1].user = "alice"
    /\ \E v \in MembersOf(1, "u1") : v.type = VERSION_CHANGE
    /\ state["t1"] = ClearedState
    /\ state["t2"].depth > 0
    /\ "u1" \in DOMAIN state["t2"].objects
    /\ state["t2"].objects["u1"].type = VERSION_DELETE
    /\ state["t2"].meta # <<>>


\* ------------------------------------------------------------------ capture
\* One thread captures a1 again and again, with every type flag and at both
\* depths, while the host changes its title, and tries to capture u1, whose
\* class is not registered.
NextCapture ==
    \/ register("Article", AllFields, <<>>, DEFAULT_SERIALIZATION_FORMAT)
    \/ start("t1")
    \/ \E f \in TypeFlags : add("t1", "a1", f)
    \/ add("t1", "u1", VERSION_CHANGE)
    \/ \E v \in FieldValues : SetField("a1", "title", v)
    \/ end("t1", {NoFault}) /\ Len(revisions') <= MaxRevisions

SpecCapture == Init /\ [][NextCapture]_vars

\* The entries of the captured objects other than o are as they were.
OthersKept(t, o) ==
    /\ DOMAIN state'[t].objects \ {o} = DOMAIN state[t].objects \ {o}
    /\ \A x \in DOMAIN state[t].objects \ {o} : state'[t].objects[x] = state[t].objects[x]

\* C15: an add in an active scope for an object of a registered class leaves
\* one entry for the object, with the type flag of this call and the payload
\* serialized at this call, whatever entry the object had, and leaves the
\* entries of the other objects alone; an add that raises for an unregistered
\* class leaves the captured objects as they were.
C15_LastAddWins ==
    [][\A o \in Objs, f \in TypeFlags :
        (add("t1", o, f) /\ state["t1"].depth > 0)
        => IF ClassOf(o) \in DOMAIN registry
           THEN /\ o \in DOMAIN state'["t1"].objects
                /\ state'["t1"].objects[o].type = f
                /\ state'["t1"].objects[o].serialized_data
                       = Serialize(registry[ClassOf(o)].format, o, registry[ClassOf(o)].fields)
                /\ OthersKept("t1", o)
           ELSE /\ last' = [op |-> "add", t |-> "t1", err |-> RegistrationError]
                /\ state' = state]_vars

\* In a nested scope a1, captured before, stands as deleted with its changed
\* title, and the add of u1 has just raised.
C15_Witness ==
    /\ state["t1"].depth = 2
    /\ DOMAIN state["t1"].objects = {"a1"}
    /\ state["t1"].objects["a1"].type = VERSION_DELETE
    /\ state["t1"].objects["a1"].serialized_data.fields["title"] = 1
    /\ last = [op |-> "add", t |-> "t1", err |-> RegistrationError]


\* ------------------------------------------------------------------ proxies
\* One thread captures the proxy instance p1 and nothing else; ArticleProxy
\* follows r1, which the host points at u1; Article, the parent, is registered
\* and may be unregistered again.
NextViews ==
    \/ register("Article", AllFields, <<>>, DEFAULT_SERIALIZATION_FORMAT)
    \/ register("Author", AllFields, <<>>, DEFAULT_SERIALIZATION_FORMAT)
    \/ register("ArticleProxy", AllFields, <<"r1">>, DEFAULT_SERIALIZATION_FORMAT)
    \/ unregister("Article")
    \/ SetRelated("p1", "r1", RelModel("u1"))
    \/ start("t1")
    \/ add("t1", "p1", VERSION_CHANGE)
    \/ invalidate("t1")
    \/ end("t1", {NoFault}) /\ Len(revisions') <= MaxRevisions

SpecViews == Init /\ [][NextViews]_vars

\* The object is an instance of a proxy class.
IsProxyObj(o) == IsProxy(ClassOf(o))

C20_RevisionsHaveMembers ==
    \A i \in 1..Len(revisions) : BagCardinality(revisions[i].versions) >= 1


\* ----------------------------------------------- type flags and duplicates
\* Scopes of one thread, one after another, with ignore_duplicates: the host
\* saves a1, with or without a new title, or deletes it, and the receivers
\* capture it as changed or as deleted.
NextKinds ==
    \/ register("Article", {"title"}, <<>>, DEFAULT_SERIALIZATION_FORMAT)
    \/ state["t1"].depth = 0 /\ start("t1")
    \/ post_save_receiver("t1", "a1", FALSE)
    \/ pre_delete_receiver("t1", "a1")
    \/ set_ignore_duplicates("t1", TRUE)
    \/ \E v \in FieldValues : SetField("a1", "title", v)
    \/ end("t1", {NoFault}) /\ Len(revisions') <= MaxHistory

SpecKinds == Init /\ [][NextKinds]_vars

\* The captured objects with their type flags replaced by those of g.
Retyped(captured, g) == [o \in DOMAIN captured |-> [captured[o] EXCEPT !.type = g[o]]]

\* C17: with ignore_duplicates set, whether the revision of a scope is
\* persisted or skipped is what it would be for the same captured objects
\* with the same payloads under any other type flags.
C17_DecisionIgnoresTypeFlag ==
    [][(/\ OutermostExit("t1")
        /\ state["t1"].ignore_duplicates
        /\ ~state["t1"].is_invalid
        /\ DOMAIN state["t1"].objects # {})
       => \A g \in [DOMAIN state["t1"].objects -> TypeFlags] :
              (revisions' # revisions)
              <=> SaveRevision(BagOf(Retyped(state["t1"].objects, g),
                                     DOMAIN state["t1"].objects))]_vars

\* a1 is stored as changed, and a scope with ignore_duplicates that captured
\* it as deleted, with the payload that is stored, is about to end.
C17_Witness ==
    /\ Len(revisions) = 1
    /\ \E v \in MembersOf(1, "a1") :
           /\ v.type = VERSION_CHANGE
           /\ state["t1"].depth = 1
           /\ state["t1"].ignore_duplicates
           /\ DOMAIN state["t1"].objects = {"a1"}
           /\ state["t1"].objects["a1"].type = VERSION_DELETE
           /\ state["t1"].objects["a1"].serialized_data = v.serialized_data


\* -------------------------------------------------------------- empty scope
\* C19: leaving the outermost scope with nothing captured persists nothing and
\* raises nothing, whatever user, comment, meta and flags were set, and the
\* state is cleared.
C19_EmptyScopeSavesNothing ==
    [][(OutermostExit("t1") /\ DOMAIN state["t1"].objects = {})
       => /\ revisions' = revisions
          /\ last' = Returned
          /\ state'["t1"] = ClearedState]_vars

\* A scope that is not invalidated carries a user, a comment and meta, has
\* captured nothing, and is about to end.
C19_Witness ==
    /\ state["t1"].depth = 1
    /\ DOMAIN state["t1"].objects = {}
    /\ ~state["t1"].is_invalid
    /\ state["t1"].user = "alice"
    /\ state["t1"].comment = "edited"
    /\ state["t1"].meta # <<>>
    /\ revisions = <<>>

====
